---------------------------- MODULE Spec2Model ----------------------------
(***************************************************************************)
(* A model of client.js: the FirebaseClient event-stream connection, the   *)
(* on/off/emit notification mechanism shared by FirebaseClient and         *)
(* LoopFirebaseServer, LoopFirebaseServer.makeId, the time-sortable        *)
(* identifier generator, and the store's records, requests and live flag.  *)
(*                                                                         *)
(* The specifications share the variables; each leaves the other parts of  *)
(* the state alone:                                                        *)
(*   SpecId     makeId calls on one generator                              *)
(*   SpecConn   connect(), close() and the channel's events                *)
(*   SpecHub    on(), off() and emit() with handlers that re-enter the hub *)
(*   SpecStore  the client's events with a LoopFirebaseServer listening    *)
(*   SpecFormat update() and _formatRecord                                 *)
(*   SpecChat   requestChat and makeId calls on one generator              *)
(*   SpecRoom   requestRoomData                                            *)
(*   SpecStale  SpecConn on a channel that delivers callbacks after close()*)
(***************************************************************************)
EXTENDS Integers, Sequences, FiniteSets, TLC

VARIABLES
    lastTime,       \* makeId.lastTime
    lastRandChars,  \* makeId.lastRandChars, indexed as in the source
    idLog,          \* history: one entry per makeId call, in call order
    sse,            \* FirebaseClient._sse: 0 is null, else the channel's number
    chan,           \* per connect() call: its EventSource, its closure
                    \* variable "resolved" and its promise
    emitted,        \* history: the emit() calls of the client, in order
    warnings,       \* history: the console.warn calls, in order
    handlers,       \* _handlers: event name -> list of callbacks
    emission,       \* history: the emit() run of the last operation, if any
    ops,            \* number of operations performed (bounds the histories)
    lastOp,         \* history: the operation performed last
    storeConnect,   \* the connect() call of the LoopFirebaseServer
                    \* constructor (line 182); 0 when none was constructed
    live,           \* LoopFirebaseServer._live
    storeHandlers,  \* LoopFirebaseServer._handlers
    storeEmitted,   \* history: the _emit() calls of the store, in order
    formatted,      \* history: the last _formatRecord call of update()
    queries,        \* history: the bounds of the requestChat calls, in order
    roomData        \* history: the last requestRoomData result

vars == <<lastTime, lastRandChars, idLog, sse, chan, emitted, warnings,
          handlers, emission, ops, lastOp, storeConnect, live,
          storeHandlers, storeEmitted, formatted, queries, roomData>>

idVars   == <<lastTime, lastRandChars, idLog>>
connVars == <<sse, chan, emitted, warnings>>
hubVars  == <<handlers, emission>>
storeVars == <<storeConnect, live, storeHandlers, storeEmitted>>
requestVars == <<formatted, queries, roomData>>

(***************************************************************************)
(* Bounds of the model.                                                    *)
(***************************************************************************)
MaxCalls == 3
MaxOps == 5
MaxChannels == 2
MaxHandlers == 3
MaxKeyLen == 2
MaxRecords == 3

(***************************************************************************)
(* JavaScript values of the suffix slots: a number, undefined (a hole of   *)
(* the array or a missing property) or NaN.                                *)
(***************************************************************************)
Num(n) == [k |-> "number", n |-> n]
Undefined == [k |-> "undefined", n |-> 0]
NaN == [k |-> "NaN", n |-> 0]

\* v++ : ToNumber(undefined) is NaN, NaN + 1 is NaN.
Increment(v) == IF v.k = "number" THEN Num(v.n + 1) ELSE NaN

\* v === 63
Is63(v) == v.k = "number" /\ v.n = 63

(***************************************************************************)
(* Strings are sequences of UTF-16 code units; JavaScript compares strings *)
(* code unit by code unit.                                                 *)
(***************************************************************************)
RECURSIVE StrLess(_, _)
StrLess(a, b) ==
    IF b = <<>> THEN FALSE
    ELSE IF a = <<>> THEN TRUE
    ELSE IF Head(a) # Head(b) THEN Head(a) < Head(b)
    ELSE StrLess(Tail(a), Tail(b))

StrLeq(a, b) == a = b \/ StrLess(a, b)

\* The alphabet in the order of base64, which is not the order of the code
\* units: "A-Z", "a-z", "0-9", "+", "/".
CHARS_Base64Order ==
    <<65, 66, 67, 68, 69, 70, 71, 72, 73, 74, 75, 76, 77, 78, 79, 80,
      81, 82, 83, 84, 85, 86, 87, 88, 89, 90,
      97, 98, 99, 100, 101, 102, 103, 104, 105, 106, 107, 108, 109, 110,
      111, 112, 113, 114, 115, 116, 117, 118, 119, 120, 121, 122,
      48, 49, 50, 51, 52, 53, 54, 55, 56, 57, 43, 47>>

\* makeId.CHARS (line 270):
\* "0123456789ABCDEFGHIJKLMNOPQRSTUVWXYZ_abcdefghijklmnopqrstuvwxyz~"
CHARS ==
    <<48, 49, 50, 51, 52, 53, 54, 55, 56, 57,
      65, 66, 67, 68, 69, 70, 71, 72, 73, 74, 75, 76, 77, 78, 79, 80,
      81, 82, 83, 84, 85, 86, 87, 88, 89, 90,
      95,
      97, 98, 99, 100, 101, 102, 103, 104, 105, 106, 107, 108, 109, 110,
      111, 112, 113, 114, 115, 116, 117, 118, 119, 120, 121, 122,
      126>>

\* CHARS.charAt(n) for a number n: "" outside the string.
CharAtNum(n) == IF n >= 0 /\ n < Len(CHARS) THEN <<CHARS[n + 1]>> ELSE <<>>

\* CHARS.charAt(v): undefined and NaN convert to position 0.
CharAt(v) == IF v.k = "number" THEN CharAtNum(v.n) ELSE CharAtNum(0)

\* a % 64 in JavaScript: the result has the sign of the dividend.
Rem64(a) == IF a >= 0 THEN a % 64 ELSE 0 - ((0 - a) % 64)

\* Math.floor(a / 64)
Floor64(a) == a \div 64

(***************************************************************************)
(* The loop of lines 279-283: eight characters, most significant first,    *)
(* and what is left of the time.                                           *)
(***************************************************************************)
RECURSIVE TimeStampLoop(_, _, _)
TimeStampLoop(i, time, timeStampChars) ==
    IF i < 0 THEN [time |-> time, chars |-> timeStampChars]
    ELSE TimeStampLoop(i - 1, Floor64(time),
                       CharAtNum(Rem64(time)) \o timeStampChars)

(***************************************************************************)
(* The loop of lines 290-293: from slot 11 down, every slot that is 63     *)
(* becomes 0; i is where the loop stops (-1 when all twelve were 63).      *)
(***************************************************************************)
RECURSIVE CarryLoop(_, _)
CarryLoop(i, rand) ==
    IF i >= 0 /\ Is63(rand[i])
    THEN CarryLoop(i - 1, [rand EXCEPT ![i] = Num(0)])
    ELSE [i |-> i, rand |-> rand]

\* Lines 289-295: the suffix of a call with the time of the previous call.
IncrementSuffix(rand) ==
    LET c == CarryLoop(11, rand)
    IN  [c.rand EXCEPT ![c.i] = Increment(c.rand[c.i])]

\* Lines 296-300: twelve fresh draws; a property "-1" of the array stays.
RedrawSuffix(rand, draw) ==
    [i \in DOMAIN rand |-> IF i >= 0 THEN Num(draw[i]) ELSE rand[i]]

\* Lines 301-303: the twelve suffix characters.
RECURSIVE SuffixChars(_, _)
SuffixChars(i, rand) ==
    IF i >= 12 THEN <<>> ELSE CharAt(rand[i]) \o SuffixChars(i + 1, rand)

(***************************************************************************)
(* makeId(time) on the generator state (lastTime, rand), with the twelve   *)
(* values Math.random() would give: the new state and the outcome.         *)
(***************************************************************************)
makeId(time, lt, rand, draw) ==
    LET duplicateTime == time = lt
        ts   == TimeStampLoop(7, time, <<>>)
        rand2 == IF duplicateTime THEN IncrementSuffix(rand)
                 ELSE RedrawSuffix(rand, draw)
        id   == ts.chars \o SuffixChars(0, rand2)
    IN  IF ts.time # 0
        THEN [lastTime |-> time, rand |-> rand, threw |-> TRUE, id |-> <<>>]
        ELSE IF Len(id) # 20
        THEN [lastTime |-> time, rand |-> rand2, threw |-> TRUE, id |-> <<>>]
        ELSE [lastTime |-> time, rand |-> rand2, threw |-> FALSE, id |-> id]

(***************************************************************************)
(* The inputs of makeId.                                                   *)
(***************************************************************************)
Times == {-1, 0, 1, 63, 64}

\* Draws of the twelve slots: a run of one value followed by a run of another.
RandVals == {0, 63}
RunLens == {11, 12}
RandDraws ==
    {[i \in 0..11 |-> IF i < k THEN a ELSE b] :
        a \in RandVals, b \in RandVals, k \in RunLens}

MakeId(time, draw) ==
    /\ Len(idLog) < MaxCalls
    /\ LET r == makeId(time, lastTime, lastRandChars, draw)
       IN  /\ lastTime' = r.lastTime
           /\ lastRandChars' = r.rand
           /\ idLog' = Append(idLog,
                  [time |-> time, threw |-> r.threw, id |-> r.id])
    /\ UNCHANGED <<connVars, hubVars, ops, lastOp, storeVars, requestVars>>

(***************************************************************************)
(* on(), off() and emit(): lines 121-140 of FirebaseClient, and the same   *)
(* code again as on(), off() and _emit() of LoopFirebaseServer (333-352).  *)
(*                                                                         *)
(* handlers is the object _handlers: its keys are the event names that     *)
(* on() has seen, each with its array of callbacks.  A callback is known   *)
(* by what it does when called:                                            *)
(*   "a", "b"    return                                                    *)
(*   "offSelf"   calls off(name, itself), a handler that runs once         *)
(*   "offA"      calls off(name, "a")                                      *)
(*   "onB"       calls on(name, "b")                                       *)
(*   "thrower"   throws                                                    *)
(*   "storePut"  the callback of lines 188-197, which the constructor of   *)
(*               LoopFirebaseServer registers, once, for "put"             *)
(* where name is the event it was registered for.                          *)
(***************************************************************************)
EventNames == {"put", "close"}
Payloads == {"/", "/chat!a"}
Callbacks == {"a", "b", "offSelf", "offA", "onB", "thrower"}

Range(q) == {q[i] : i \in 1..Len(q)}

\* this._handlers[eventName] || []
HandlersOf(hs, eventName) ==
    IF eventName \in DOMAIN hs THEN hs[eventName] ELSE <<>>

\* Lines 121-127: on(eventName, callback).
on(hs, eventName, callback) ==
    IF eventName \in DOMAIN hs
    THEN [hs EXCEPT ![eventName] = Append(@, callback)]
    ELSE [e \in DOMAIN hs \cup {eventName} |->
             IF e = eventName THEN <<callback>> ELSE hs[e]]

\* l.indexOf(callback), counted from 1; 0 when absent.
RECURSIVE IndexOf(_, _, _)
IndexOf(l, callback, i) ==
    IF i > Len(l) THEN 0
    ELSE IF l[i] = callback THEN i
    ELSE IndexOf(l, callback, i + 1)

\* l.splice(i, 1), i counted from 1.
Splice(l, i) == SubSeq(l, 1, i - 1) \o SubSeq(l, i + 1, Len(l))

\* Lines 129-134: off(eventName, callback).
off(hs, eventName, callback) ==
    LET l == HandlersOf(hs, eventName)
    IN  IF IndexOf(l, callback, 1) # 0
        THEN [hs EXCEPT ![eventName] = Splice(l, IndexOf(l, callback, 1))]
        ELSE hs

(***************************************************************************)
(* The store's records.  A key, a type and an id are strings, written as   *)
(* sequences of characters.  A value is known by what Object.assign makes  *)
(* of it as a target: "object", or "null", which has no properties.        *)
(***************************************************************************)
LineTerminators == {"\n", "\r"}

Record(type, id, data) == [type |-> type, id |-> id, data |-> data]
NoRecord == Record(<<>>, <<>>, "undefined")

\* Lines 217-220: _formatRecord(key, record).  [^!]+ takes the characters
\* before the first "!", at least one; .+ takes the rest up to the end of
\* the key, at least one character and no line terminator.  Without a
\* match, match() is null and the destructuring throws a TypeError;
\* Object.assign throws a TypeError for the target null.
FormatRecord(key, record) ==
    LET p == IndexOf(key, "!", 1)
        matches == /\ p > 1
                   /\ p < Len(key)
                   /\ \A i \in (p + 1)..Len(key) : key[i] \notin LineTerminators
    IN  IF ~matches \/ record = "null"
        THEN [threw |-> TRUE, record |-> NoRecord]
        ELSE [threw |-> FALSE,
              record |-> Record(SubSeq(key, 1, p - 1),
                                SubSeq(key, p + 1, Len(key)), record)]

(***************************************************************************)
(* The payload of a put or patch event is the object {path, data} that     *)
(* JSON.parse makes of event.data (line 60).  A payload is named by its    *)
(* path, followed by " null" when its data is null, as the event of a      *)
(* removed record has it; the data is an object otherwise.                 *)
(***************************************************************************)
StorePayloads == {"/", "/c!a!b", "/c!a null", "/meta"}

Parsed(payload) ==
    CASE payload = "/" -> [path |-> <<"/">>, data |-> "object"]
      [] payload = "/chat!a" ->
             [path |-> <<"/", "c", "h", "a", "t", "!", "a">>,
              data |-> "object"]
      [] payload = "/c!a!b" ->
             [path |-> <<"/", "c", "!", "a", "!", "b">>, data |-> "object"]
      [] payload = "/c!a null" ->
             [path |-> <<"/", "c", "!", "a">>, data |-> "null"]
      [] payload = "/meta" ->
             [path |-> <<"/", "m", "e", "t", "a">>, data |-> "object"]

RECURSIVE EmitLoop(_, _, _, _, _)

\* The store's state as the operators below pass it on.
Store(l, sh, em) == [live |-> l, handlers |-> sh, emitted |-> em]

\* this._emit(eventName, argument) in store state st (lines 348-352).
StoreEmit(st, eventName, argument) ==
    LET r == EmitLoop(1, st.handlers, <<>>, eventName, argument)
    IN  [store |-> Store(st.live, r.hs,
                         Append(st.emitted,
                                [name |-> eventName, arg |-> argument])),
         threw |-> r.threw]

\* Lines 188-197: the callback the store registers for the client's "put",
\* called with argument in store state st.
StorePut(st, argument) ==
    IF Parsed(argument).path = <<"/">>
    THEN [store |-> st, threw |-> FALSE]
    ELSE LET key == Tail(Parsed(argument).path)
             r == FormatRecord(key, Parsed(argument).data)
         IN  IF r.threw THEN [store |-> st, threw |-> TRUE]
             ELSE StoreEmit(st, "update", r.record)

\* The store's state now.
StoreNow == Store(live, storeHandlers, storeEmitted)

\* callback(argument): what the callback does to the hub, and whether it
\* throws.
Call(callback, hs, eventName, argument) ==
    CASE callback = "offSelf" ->
             [hs |-> off(hs, eventName, "offSelf"), threw |-> FALSE]
      [] callback = "offA" ->
             [hs |-> off(hs, eventName, "a"), threw |-> FALSE]
      [] callback = "onB" ->
             [hs |-> on(hs, eventName, "b"), threw |-> FALSE]
      [] callback = "thrower" -> [hs |-> hs, threw |-> TRUE]
      [] callback = "storePut" ->
             [hs |-> hs, threw |-> StorePut(StoreNow, argument).threw]
      [] OTHER -> [hs |-> hs, threw |-> FALSE]

(***************************************************************************)
(* Lines 136-140: the for...of loop of emit().  The array iterator keeps   *)
(* an index into the array itself: before each step it compares the index *)
(* with the array's present length, and it reads the present element.      *)
(* i is the index counted from 1; calls the callbacks called so far.       *)
(***************************************************************************)
EmitLoop(i, hs, calls, eventName, argument) ==
    IF i > Len(HandlersOf(hs, eventName))
    THEN [hs |-> hs, calls |-> calls, threw |-> FALSE]
    ELSE LET callback == hs[eventName][i]
             r == Call(callback, hs, eventName, argument)
             calls2 == Append(calls, [cb |-> callback, arg |-> argument])
         IN  IF r.threw
             THEN [hs |-> r.hs, calls |-> calls2, threw |-> TRUE]
             ELSE EmitLoop(i + 1, r.hs, calls2, eventName, argument)

NoEmission ==
    [ran |-> FALSE, name |-> "", arg |-> "", before |-> <<>>,
     calls |-> <<>>, threw |-> FALSE]

Registered(hs) ==
    LET RECURSIVE Sum(_)
        Sum(S) == IF S = {} THEN 0
                  ELSE LET e == CHOOSE x \in S : TRUE
                       IN  Len(hs[e]) + Sum(S \ {e})
    IN  Sum(DOMAIN hs)

On(eventName, callback) ==
    /\ Registered(handlers) < MaxHandlers
    /\ handlers' = on(handlers, eventName, callback)
    /\ emission' = NoEmission
    /\ UNCHANGED <<idVars, connVars, ops, lastOp, storeVars, requestVars>>

Off(eventName, callback) ==
    /\ handlers' = off(handlers, eventName, callback)
    /\ emission' = NoEmission
    /\ UNCHANGED <<idVars, connVars, ops, lastOp, storeVars, requestVars>>

\* Lines 136-140: emit(eventName, argument) with the handlers hs: the
\* handlers afterwards, the record of the run, and whether it threw.
emit(hs, eventName, argument) ==
    LET r == EmitLoop(1, hs, <<>>, eventName, argument)
    IN  [handlers |-> r.hs,
         emission |-> [ran |-> TRUE, name |-> eventName, arg |-> argument,
                       before |-> HandlersOf(hs, eventName),
                       calls |-> r.calls, threw |-> r.threw],
         threw |-> r.threw]

Emit(eventName, argument) ==
    /\ Registered(handlers) <= MaxHandlers
    /\ LET r == emit(handlers, eventName, argument)
       IN  /\ handlers' = r.handlers
           /\ emission' = r.emission
    /\ UNCHANGED <<idVars, connVars, ops, lastOp, storeVars, requestVars>>

(***************************************************************************)
(* FirebaseClient: connect(), close() and the callbacks of the EventSource.*)
(*                                                                         *)
(* chan[c] belongs to the c-th connect() call:                             *)
(*   exists    the call created its EventSource (line 15)                  *)
(*   closed    that EventSource's close() has been called (line 42)        *)
(*   resolved  the variable "resolved" of the call (line 22)               *)
(*   promise   the state of the promise the call returned                  *)
(*   opened, earlyError   history: the channel has reported open; it       *)
(*             reported an error before its first open                     *)
(* The callbacks registered on the client return or throw; they do not     *)
(* call back into connect() or close().                                    *)
(***************************************************************************)
WarnReconnect == "Reconnecting with open event stream"
WarnNotOpen == "Attempt to close event stream that isn't open"
WarnUnexpected == "Event stream unexpectedly closed:"
WarnRemote == "Event stream closed by remote because:"

EVENTS == {"put", "patch"}
RemoteCloseReasons == {"cancel", "auth_revoked"}
UserReason == "user"

NewChannel ==
    [exists |-> TRUE, closed |-> FALSE, resolved |-> FALSE,
     promise |-> "pending", opened |-> FALSE, earlyError |-> FALSE]

\* The promise of a connect() call whose executor threw before line 15.
NoChannel ==
    [exists |-> FALSE, closed |-> FALSE, resolved |-> FALSE,
     promise |-> "rejected", opened |-> FALSE, earlyError |-> FALSE]

Channels == 1..Len(chan)
LiveChannels == {c \in Channels : chan[c].exists /\ ~chan[c].closed}

\* resolve() and reject() settle a pending promise and do nothing otherwise.
Settle(p, how) == IF p = "pending" THEN how ELSE p

Op(op, c, arg, threw) == [op |-> op, c |-> c, arg |-> arg, threw |-> threw]

\* The state of the client, and of the store that listens to it, as the
\* operators below pass it on.
Client(s, ch, em, w, hs, e, threw, st) ==
    [sse |-> s, chan |-> ch, emitted |-> em, warnings |-> w,
     handlers |-> hs, emission |-> e, threw |-> threw, store |-> st]

\* The store's state after the calls of an emit() run, from the i-th on.
RECURSIVE StoreAfter(_, _, _)
StoreAfter(st, calls, i) ==
    IF i > Len(calls) THEN st
    ELSE StoreAfter(IF calls[i].cb = "storePut"
                    THEN StorePut(st, calls[i].arg).store ELSE st,
                    calls, i + 1)

\* this.emit(eventName, argument) in client state cl.
ClientEmit(cl, eventName, argument) ==
    LET r == emit(cl.handlers, eventName, argument)
    IN  Client(cl.sse, cl.chan,
               Append(cl.emitted, [name |-> eventName, arg |-> argument]),
               cl.warnings, r.handlers, r.emission, r.threw,
               StoreAfter(cl.store, r.emission.calls, 1))

\* console.warn(text) in client state cl.
Warn(cl, text) == [cl EXCEPT !.warnings = Append(@, text)]

\* close() without the test of line 38: null has no close(), a TypeError.
close_NoGuard(cl, reason) ==
    IF cl.sse = 0
    THEN [cl EXCEPT !.threw = TRUE]
    ELSE ClientEmit([cl EXCEPT !.chan[cl.sse].closed = TRUE, !.sse = 0],
                    "close", reason)

\* Lines 37-45: close(reason) in client state cl.
close(cl, reason) ==
    IF cl.sse = 0
    THEN Warn(cl, WarnNotOpen)
    ELSE ClientEmit([cl EXCEPT !.chan[cl.sse].closed = TRUE, !.sse = 0],
                    "close", reason)

\* The client's state now, no emit() run and nothing thrown yet.
Now ==
    Client(sse, chan, emitted, warnings, handlers, NoEmission, FALSE,
           StoreNow)

\* The client's state after the step is cl.
Becomes(cl) ==
    /\ sse' = cl.sse
    /\ chan' = cl.chan
    /\ emitted' = cl.emitted
    /\ warnings' = cl.warnings
    /\ handlers' = cl.handlers
    /\ emission' = cl.emission
    /\ live' = cl.store.live
    /\ storeHandlers' = cl.store.handlers
    /\ storeEmitted' = cl.store.emitted
    /\ UNCHANGED storeConnect

\* Lines 8-35: connect().  The executor runs inside the call; what it
\* throws rejects the promise and ends it.
Connect ==
    /\ ops < MaxOps
    /\ Len(chan) < MaxChannels
    /\ LET cl == IF sse # 0 THEN close(Warn(Now, WarnReconnect), "reconnect")
                 ELSE Now
       IN  IF cl.threw
           THEN Becomes([cl EXCEPT !.chan = Append(@, NoChannel)])
           ELSE Becomes([cl EXCEPT !.chan = Append(@, NewChannel),
                                   !.sse = Len(chan) + 1])
    /\ ops' = ops + 1
    /\ lastOp' = Op("connect", Len(chan) + 1, "", FALSE)
    /\ UNCHANGED <<idVars, requestVars>>

\* Lines 37-45: close(reason) called by the client's user.
Close ==
    /\ ops < MaxOps
    /\ LET cl == close(Now, UserReason)
       IN  /\ Becomes(cl)
           /\ lastOp' = Op("close", sse, UserReason, cl.threw)
    /\ ops' = ops + 1
    /\ UNCHANGED <<idVars, requestVars>>

\* onerror without the return of line 26: the error is emitted as well.
OnError_NoReturn(c) ==
    /\ ops < MaxOps
    /\ LET cl == IF ~chan[c].resolved
                 THEN [Now EXCEPT !.chan[c].promise = Settle(@, "rejected"),
                                  !.chan[c].earlyError = TRUE]
                 ELSE Now
           cl2 == ClientEmit(cl, "error", "error")
       IN  /\ Becomes(cl2)
           /\ lastOp' = Op("onerror", c, "error", cl2.threw)
    /\ ops' = ops + 1
    /\ UNCHANGED <<idVars, requestVars>>

\* Lines 23-29: the onerror callback of channel c.
OnError(c) ==
    /\ ops < MaxOps
    /\ LET cl == IF ~chan[c].resolved
                 THEN [Now EXCEPT !.chan[c].promise = Settle(@, "rejected"),
                                  !.chan[c].earlyError = TRUE]
                 ELSE ClientEmit(Now, "error", "error")
       IN  /\ Becomes(cl)
           /\ lastOp' = Op("onerror", c, "error", cl.threw)
    /\ ops' = ops + 1
    /\ UNCHANGED <<idVars, requestVars>>

\* The callback of then() without line 184: "connect" is emitted and the
\* flag is left as it is.
Connected_NoFlag(cl) ==
    IF cl.sse = 0 THEN cl
    ELSE [cl EXCEPT !.store = StoreEmit(@, "connect", NoRecord).store]

\* Lines 182-186: the callback the store's constructor gave to then(), in
\* state cl.  Line 183 reads _sse.readyState, a TypeError when _sse is null,
\* which the promise of then() keeps; write() returns; what a "connect"
\* handler throws stays in that promise as well.
Connected(cl) ==
    IF cl.sse = 0 THEN cl
    ELSE [cl EXCEPT !.store =
              StoreEmit([@ EXCEPT !.live = TRUE], "connect", NoRecord).store]

\* Lines 30-33: the onopen callback of channel c.  When resolve() settles
\* the promise the store waits for, the store's callback runs as the
\* callback returns, before any other event.
OnOpen(c) ==
    /\ ops < MaxOps
    /\ LET cl == [Now EXCEPT !.chan[c].resolved = TRUE,
                             !.chan[c].promise = Settle(@, "resolved"),
                             !.chan[c].opened = TRUE]
       IN  Becomes(IF c = storeConnect /\ chan[c].promise = "pending"
                   THEN Connected(cl) ELSE cl)
    /\ ops' = ops + 1
    /\ lastOp' = Op("onopen", c, "", FALSE)
    /\ UNCHANGED <<idVars, requestVars>>

\* A remote close handled as _onClose handles a close event.
OnRemoteClose_NoTeardown(c, reason) ==
    /\ ops < MaxOps
    /\ LET cl == ClientEmit(Warn(Now, WarnRemote), "close", reason)
       IN  /\ Becomes(cl)
           /\ lastOp' = Op("onremoteclose", c, reason, cl.threw)
    /\ ops' = ops + 1
    /\ UNCHANGED <<idVars, requestVars>>

\* Lines 54-57: a cancel or auth_revoked event of channel c.
OnRemoteClose(c, reason) ==
    /\ ops < MaxOps
    /\ LET cl == close(Warn(Now, WarnRemote), reason)
       IN  /\ Becomes(cl)
           /\ lastOp' = Op("onremoteclose", c, reason, cl.threw)
    /\ ops' = ops + 1
    /\ UNCHANGED <<idVars, requestVars>>

\* _onClose with line 51 in force: the connection reference is cleared.
OnClose_ClearsRef(c) ==
    /\ ops < MaxOps
    /\ LET cl == ClientEmit(Warn(Now, WarnUnexpected), "close", "reset")
       IN  /\ Becomes([cl EXCEPT !.sse = 0])
           /\ lastOp' = Op("onclose", c, "reset", cl.threw)
    /\ ops' = ops + 1
    /\ UNCHANGED <<idVars, requestVars>>

\* Lines 47-52: a close event of channel c.
OnClose(c) ==
    /\ ops < MaxOps
    /\ LET cl == ClientEmit(Warn(Now, WarnUnexpected), "close", "reset")
       IN  /\ Becomes(cl)
           /\ lastOp' = Op("onclose", c, "reset", cl.threw)
    /\ ops' = ops + 1
    /\ UNCHANGED <<idVars, requestVars>>

\* Lines 59-61: a put or patch event of channel c, with its decoded payload.
OnEvent(c, eventName, payload) ==
    /\ ops < MaxOps
    /\ LET cl == ClientEmit(Now, eventName, payload)
       IN  /\ Becomes(cl)
           /\ lastOp' = Op(eventName, c, payload, cl.threw)
    /\ ops' = ops + 1
    /\ UNCHANGED <<idVars, requestVars>>

(***************************************************************************)
(* Initial state.  makeId.CHARS, lastRandChars = [] and lastTime = 0 are   *)
(* assigned by the first call (lines 268-274); no call reads them before.  *)
(***************************************************************************)
InitId ==
    /\ lastTime = 0
    /\ lastRandChars = [i \in -1..11 |-> Undefined]
    /\ idLog = <<>>

InitConn ==
    /\ sse = 0
    /\ chan = <<>>
    /\ emitted = <<>>
    /\ warnings = <<>>

InitHub ==
    /\ handlers = [e \in {} |-> <<>>]
    /\ emission = NoEmission

NoOp == [op |-> "none", c |-> 0, arg |-> "", threw |-> FALSE]

\* No LoopFirebaseServer has been constructed.
InitNoStore ==
    /\ storeConnect = 0
    /\ live = FALSE
    /\ storeHandlers = [e \in {} |-> <<>>]
    /\ storeEmitted = <<>>

NoFormat == [called |-> FALSE, type |-> <<>>, id |-> <<>>, key |-> <<>>,
             threw |-> FALSE, record |-> NoRecord]

NoRoomData ==
    [called |-> FALSE, engine |-> "", keys |-> <<>>, threw |-> FALSE,
     records |-> <<>>, result |-> <<>>]

InitRequest ==
    /\ formatted = NoFormat
    /\ queries = <<>>
    /\ roomData = NoRoomData

Init ==
    /\ InitId /\ InitConn /\ InitHub /\ InitNoStore /\ InitRequest
    /\ ops = 0 /\ lastOp = NoOp

NextId == \E time \in Times, draw \in RandDraws : MakeId(time, draw)

SpecId == Init /\ [][NextId]_vars

\* The callbacks registered on the client before it connects: none; those
\* of lines 153-155, which return; a "close" and an "error" callback that
\* throw.
ConnHandlers ==
    {[e \in {} |-> <<>>],
     [e \in {"put", "patch", "close"} |-> <<"a">>],
     [e \in {"close", "error"} |-> <<"thrower">>]}

InitC ==
    /\ InitId /\ InitConn /\ InitNoStore /\ InitRequest
    /\ handlers \in ConnHandlers
    /\ emission = NoEmission
    /\ ops = 0 /\ lastOp = NoOp

\* An EventSource dispatches events until its close() is called.
NextConn ==
    \/ Connect
    \/ Close
    \/ \E c \in LiveChannels : OnError(c)
    \/ \E c \in LiveChannels : OnOpen(c)
    \/ \E c \in LiveChannels, reason \in RemoteCloseReasons :
           OnRemoteClose(c, reason)
    \/ \E c \in LiveChannels : OnClose(c)
    \/ \E c \in LiveChannels, eventName \in EVENTS, payload \in Payloads :
           OnEvent(c, eventName, payload)

SpecConn == InitC /\ [][NextConn]_vars

(***************************************************************************)
(* The state after new LoopFirebaseServer() on a client that has not       *)
(* connected (lines 172-198): the constructor's connect() created channel  *)
(* 1, whose promise the store waits for, and its put callback follows the  *)
(* client's earlier callbacks.  The request of line 178 only sets          *)
(* _clockSkew, the default of requestChat's endTime.  The callbacks on the *)
(* client and on the store: those of lines 153-155 and more that return;   *)
(* callbacks that throw on the client; callbacks that throw on the store.  *)
(***************************************************************************)
StoreConfigs ==
    {[client |-> [e \in {"put", "patch", "close"} |->
                     IF e = "put" THEN <<"a", "storePut", "b">> ELSE <<"a">>],
      store |-> [e \in {"update", "connect"} |-> <<"a">>]],
     [client |-> [e \in {"put", "close"} |->
                     IF e = "put" THEN <<"thrower", "storePut">>
                     ELSE <<"thrower">>],
      store |-> [e \in {} |-> <<>>]],
     [client |-> [e \in {"put"} |-> <<"storePut", "b">>],
      store |-> [e \in {"update", "connect"} |-> <<"thrower">>]]}

\* The events the store's channel delivers: every payload as a put, one
\* as a patch.
StoreEvents ==
    {[name |-> "put", payload |-> p] : p \in StorePayloads}
        \cup {[name |-> "patch", payload |-> "/c!a!b"]}

InitStore ==
    /\ InitId /\ InitRequest
    /\ sse = 1
    /\ chan = <<NewChannel>>
    /\ emitted = <<>>
    /\ warnings = <<>>
    /\ storeConnect = 1
    /\ live = FALSE
    /\ storeEmitted = <<>>
    /\ \E cfg \in StoreConfigs :
           handlers = cfg.client /\ storeHandlers = cfg.store
    /\ emission = NoEmission
    /\ ops = 0 /\ lastOp = NoOp

NextStore ==
    \/ Connect
    \/ Close
    \/ \E c \in LiveChannels : OnError(c)
    \/ \E c \in LiveChannels : OnOpen(c)
    \/ \E c \in LiveChannels, reason \in RemoteCloseReasons :
           OnRemoteClose(c, reason)
    \/ \E c \in LiveChannels : OnClose(c)
    \/ \E c \in LiveChannels, e \in StoreEvents :
           OnEvent(c, e.name, e.payload)

SpecStore == InitStore /\ [][NextStore]_vars

(***************************************************************************)
(* update(type, id, value), lines 322-327.  The types and ids are the      *)
(* strings of at most MaxKeyLen characters over a letter, the separator    *)
(* and a line terminator.  _request resolves with the parsed body, an      *)
(* object, when the status is 200 and rejects otherwise (lines 109-116);   *)
(* the callback of then() runs in the first case only.                     *)
(***************************************************************************)
Alphabet == {"c", "!", "\n"}
Strings == UNION {[1..k -> Alphabet] : k \in 0..MaxKeyLen}

Update(type, id, status200) ==
    /\ LET key == type \o <<"!">> \o id
           r == FormatRecord(key, "object")
       IN  formatted' =
               IF status200
               THEN [called |-> TRUE, type |-> type, id |-> id, key |-> key,
                     threw |-> r.threw, record |-> r.record]
               ELSE [called |-> FALSE, type |-> type, id |-> id, key |-> key,
                     threw |-> FALSE, record |-> NoRecord]
    /\ UNCHANGED <<idVars, connVars, hubVars, ops, lastOp, storeVars,
                   queries, roomData>>

NextFormat ==
    \E type \in Strings, id \in Strings, status200 \in BOOLEAN :
        Update(type, id, status200)

SpecFormat == Init /\ [][NextFormat]_vars

(***************************************************************************)
(* requestChat(startTime, endTime, limit), lines 250-261.  The object      *)
(* literal evaluates startAt before endAt: two makeId calls on the one     *)
(* generator, the second not made when the first throws.  The query is     *)
(* kept by its bounds, without the quotes around them, and its limit.      *)
(***************************************************************************)
MAX_LIMIT == 2147483647

\* "chat!" in code units.
ChatPrefix == <<99, 104, 97, 116, 33>>

WindowTimes == {0, 1, 63}
Limits == {0, 2}

RequestChat(startTime, endTime, limit, draw1, draw2) ==
    /\ Len(idLog) + 2 <= MaxCalls
    /\ LET time1 == IF startTime - 1 > 0 THEN startTime - 1 ELSE 0
           r1 == makeId(time1, lastTime, lastRandChars, draw1)
           r2 == makeId(endTime + 1, r1.lastTime, r1.rand, draw2)
           last == IF r1.threw THEN r1 ELSE r2
           call1 == [time |-> time1, threw |-> r1.threw, id |-> r1.id]
           call2 == [time |-> endTime + 1, threw |-> r2.threw, id |-> r2.id]
       IN  /\ lastTime' = last.lastTime
           /\ lastRandChars' = last.rand
           /\ idLog' = idLog \o (IF r1.threw THEN <<call1>>
                                 ELSE <<call1, call2>>)
           /\ queries' = Append(queries,
                  [startTime |-> startTime, endTime |-> endTime,
                   threw |-> last.threw,
                   startAt |-> ChatPrefix \o r1.id,
                   endAt |-> ChatPrefix \o r2.id,
                   limitToLast |-> IF limit > 0 THEN limit ELSE MAX_LIMIT,
                   before |-> [lastTime |-> lastTime, rand |-> lastRandChars],
                   after |-> [lastTime |-> last.lastTime, rand |-> last.rand]])
    /\ UNCHANGED <<connVars, hubVars, ops, lastOp, storeVars, formatted,
                   roomData>>

NextChat ==
    \/ \E time \in Times, draw \in RandDraws : MakeId(time, draw)
    \/ \E startTime \in WindowTimes, endTime \in WindowTimes,
          limit \in Limits, draw1 \in RandDraws, draw2 \in RandDraws :
           /\ startTime <= endTime
           /\ RequestChat(startTime, endTime, limit, draw1, draw2)

SpecChat == Init /\ [][NextChat]_vars

(***************************************************************************)
(* requestRoomData(), lines 234-248.  The response is null or an object,   *)
(* known by its keys in the order Object.keys gives them, each with an     *)
(* object as its value.  _recordsFormatter (225-232) formats every record, *)
(* and the records are sorted with a comparison function that returns the  *)
(* boolean b.type === "participant": 1 or 0 as a number, never negative,   *)
(* and not a consistent comparison, for which the language leaves the      *)
(* order to the implementation.  Two implementations are modelled:         *)
(*   "insertion"        the insertion sort SpiderMonkey's merge sort and   *)
(*                      V8 before version 7 use for short arrays, which    *)
(*                      moves an item before the items that compare        *)
(*                      greater than it;                                   *)
(*   "binaryInsertion"  the binary insertion sort of V8's TimSort, which   *)
(*                      moves an item before the items it compares less    *)
(*                      than.                                              *)
(***************************************************************************)
Participant == <<"p", "a", "r", "t", "i", "c", "i", "p", "a", "n", "t">>
Room == <<"r", "o", "o", "m">>
Meta == <<"m", "e", "t", "a">>

RoomKeys ==
    {type \o <<"!">> \o id :
        type \in {Participant, Room}, id \in {<<"a">>, <<"b">>}}
        \cup {Meta \o <<"!", "a">>}

\* The sequences of at most MaxRecords different keys.
KeyLists ==
    {keys \in UNION {[1..n -> RoomKeys] : n \in 0..MaxRecords} :
        \A i, j \in 1..Len(keys) : i # j => keys[i] # keys[j]}

SortEngines == {"insertion", "binaryInsertion"}

\* Lines 244-246: the comparison function as a number.
Compare(a, b) == IF b.type = Participant THEN 1 ELSE 0

\* The index, from j downwards, of the first item not greater than item.
RECURSIVE StopIndex(_, _, _)
StopIndex(a, j, item) ==
    IF j < 1 \/ Compare(a[j], item) <= 0 THEN j
    ELSE StopIndex(a, j - 1, item)

RECURSIVE InsertionSort(_, _)
InsertionSort(a, i) ==
    IF i > Len(a) THEN a
    ELSE LET j == StopIndex(a, i - 1, a[i])
         IN  InsertionSort(SubSeq(a, 1, j) \o <<a[i]>> \o SubSeq(a, j + 1, i - 1)
                               \o SubSeq(a, i + 1, Len(a)),
                           i + 1)

\* The place of pivot among a[left .. right - 1], by halving.
RECURSIVE BinarySearch(_, _, _, _)
BinarySearch(a, pivot, left, right) ==
    IF left >= right THEN left
    ELSE LET mid == left + ((right - left) \div 2)
         IN  IF Compare(pivot, a[mid]) < 0
             THEN BinarySearch(a, pivot, left, mid)
             ELSE BinarySearch(a, pivot, mid + 1, right)

RECURSIVE BinaryInsertionSort(_, _)
BinaryInsertionSort(a, i) ==
    IF i > Len(a) THEN a
    ELSE LET j == BinarySearch(a, a[i], 1, i)
         IN  BinaryInsertionSort(
                 SubSeq(a, 1, j - 1) \o <<a[i]>> \o SubSeq(a, j, i - 1)
                     \o SubSeq(a, i + 1, Len(a)),
                 i + 1)

\* records.sort(comparefn) as the engine does it.
Sort(records, engine) ==
    IF engine = "insertion" THEN InsertionSort(records, 2)
    ELSE BinaryInsertionSort(records, 2)

\* Lines 225-232: the records of a response with the given keys.
RecordsFormatter(isNull, keys) ==
    IF isNull THEN [threw |-> FALSE, records |-> <<>>]
    ELSE [threw |-> \E i \in 1..Len(keys) : FormatRecord(keys[i], "object").threw,
          records |-> [i \in 1..Len(keys) |->
                          FormatRecord(keys[i], "object").record]]

RequestRoomData(isNull, keys, engine) ==
    /\ LET r == RecordsFormatter(isNull, keys)
       IN  roomData' =
               [called |-> TRUE, engine |-> engine, keys |-> keys,
                threw |-> r.threw, records |-> r.records,
                result |-> IF r.threw THEN <<>> ELSE Sort(r.records, engine)]
    /\ UNCHANGED <<idVars, connVars, hubVars, ops, lastOp, storeVars,
                   formatted, queries>>

NextRoom ==
    \E isNull \in BOOLEAN, keys \in KeyLists, engine \in SortEngines :
        /\ isNull => keys = <<>>
        /\ RequestRoomData(isNull, keys, engine)

SpecRoom == Init /\ [][NextRoom]_vars

(***************************************************************************)
(* The client on a push channel whose teardown is not immediate: a channel *)
(* whose close() was called still delivers the callbacks it had under way. *)
(* connect() and close() register and remove nothing on the old            *)
(* EventSource (lines 16-33 and 42-43), so its listeners stay bound to the *)
(* client.  An EventSource of the HTML standard dispatches nothing after   *)
(* close(); NextConn describes that one, NextStale the other.              *)
(***************************************************************************)
StaleChannels == {c \in Channels : chan[c].exists /\ chan[c].closed}

\* The channels that deliver callbacks: every channel that was created.
DeliveringChannels == LiveChannels \cup StaleChannels

NextStale ==
    \/ Connect
    \/ Close
    \/ \E c \in DeliveringChannels : OnError(c)
    \/ \E c \in DeliveringChannels : OnOpen(c)
    \/ \E c \in DeliveringChannels, reason \in RemoteCloseReasons :
           OnRemoteClose(c, reason)
    \/ \E c \in DeliveringChannels : OnClose(c)
    \/ \E c \in DeliveringChannels, eventName \in EVENTS,
          payload \in Payloads : OnEvent(c, eventName, payload)

SpecStale == InitC /\ [][NextStale]_vars

NextHub ==
    \/ \E eventName \in EventNames, callback \in Callbacks :
           On(eventName, callback)
    \/ \E eventName \in EventNames, callback \in Callbacks :
           Off(eventName, callback)
    \/ \E eventName \in EventNames, argument \in Payloads :
           Emit(eventName, argument)

SpecHub == Init /\ [][NextHub]_vars

(***************************************************************************)
(* Claims about makeId, checked under SpecId.                              *)
(***************************************************************************)
Returned(i) == ~idLog[i].threw
Encodable(t) == t >= 0
Suffix(id) == SubSeq(id, 9, 20)
Prefix(id) == SubSeq(id, 1, 8)
AllTilde == [i \in 1..12 |-> 126]
AllZeroChar == [i \in 1..12 |-> 48]

\* C1: of two consecutive makeId calls with the same encodable timestamp,
\* the second returns an identifier strictly greater than the first's.
C1_SameTimeStrictlyIncreasing ==
    \A i \in 2..Len(idLog) :
        (/\ idLog[i].time = idLog[i - 1].time
         /\ Encodable(idLog[i].time)
         /\ Returned(i - 1) /\ Returned(i))
        => StrLess(idLog[i - 1].id, idLog[i].id)

\* C2: of any two identifiers of one generator, the earlier is <= the later
\* in call order, and strictly smaller when the two timestamps differ.
C2_CallOrderIsIdOrder ==
    \A i \in 1..Len(idLog) : \A j \in 1..Len(idLog) :
        (i < j /\ Returned(i) /\ Returned(j))
        => /\ StrLeq(idLog[i].id, idLog[j].id)
           /\ (idLog[i].time # idLog[j].time
               => StrLess(idLog[i].id, idLog[j].id))

\* C3: an identifier made for timestamp t1 is strictly smaller than any
\* identifier made for a timestamp t2 > t1, whatever the two suffixes and
\* whichever was made first.
C3_TimeOrderIsIdOrder ==
    \A i \in 1..Len(idLog) : \A j \in 1..Len(idLog) :
        (Returned(i) /\ Returned(j) /\ idLog[i].time < idLog[j].time)
        => StrLess(idLog[i].id, idLog[j].id)

\* C3's case: the identifier of the smaller timestamp has the greatest
\* suffix, that of the greater timestamp a smaller one, and the two
\* timestamps differ in another digit than the last.
C3_Witness ==
    \E i \in 1..Len(idLog) : \E j \in 1..Len(idLog) :
        /\ Returned(i) /\ Returned(j)
        /\ idLog[i].time = 63 /\ idLog[j].time = 64
        /\ Suffix(idLog[i].id) = AllTilde
        /\ Suffix(idLog[j].id) = AllZeroChar

\* C4: a makeId call with the timestamp of the previous call that finds all
\* twelve suffix slots at 63 fails: it returns no identifier.
C4_OverflowIsFatal ==
    [][(/\ Len(idLog') = Len(idLog) + 1
        /\ idLog'[Len(idLog')].time = lastTime
        /\ \A i \in 0..11 : Is63(lastRandChars[i]))
       => idLog'[Len(idLog')].threw]_vars

(***************************************************************************)
(* Claims about the connection, checked under SpecConn.                    *)
(***************************************************************************)
Last(q) == q[Len(q)]
Notes(name) == SelectSeq(emitted, LAMBDA n : n.name = name)
ErrorNote == [name |-> "error", arg |-> "error"]
CloseNote(reason) == [name |-> "close", arg |-> reason]

\* The step is the onerror callback of a channel that had not opened / had.
ErrorBeforeOpen == lastOp'.op = "onerror" /\ ~chan[lastOp'.c].opened
ErrorAfterOpen == lastOp'.op = "onerror" /\ chan[lastOp'.c].opened

\* What C5 and its amendment share: an error before the first open fails
\* the deferred result and emits nothing; an error after the open emits
\* exactly one "error" and leaves the connection reference and the channel
\* as they were, the channel not torn down.
C5_Common ==
    /\ ErrorBeforeOpen =>
           /\ chan'[lastOp'.c].promise = "rejected"
           /\ emitted' = emitted
    /\ ErrorAfterOpen =>
           /\ emitted' = Append(emitted, ErrorNote)
           /\ sse' = sse /\ sse' = lastOp'.c
           /\ ~chan'[lastOp'.c].closed

\* C5 as claimed: after its open, an error leaves the deferred result
\* resolved.
C5_ErrorSplit_Original ==
    [][/\ C5_Common
       /\ ErrorAfterOpen =>
              /\ chan[lastOp'.c].promise = "resolved"
              /\ chan'[lastOp'.c].promise = "resolved"]_vars

\* C5 as amended: after its open, an error leaves the deferred result as it
\* was: resolved, unless an error before the first open had failed it.
C5_ErrorSplit ==
    [][/\ C5_Common
       /\ ErrorAfterOpen =>
              /\ chan'[lastOp'.c].promise = chan[lastOp'.c].promise
              /\ chan[lastOp'.c].promise =
                     IF chan[lastOp'.c].earlyError THEN "rejected"
                     ELSE "resolved"]_vars

\* C5's cases: a channel failed before its open, then opened, then reported
\* an error that was emitted.
C5_Witness ==
    /\ lastOp.op = "onerror"
    /\ chan[lastOp.c].opened /\ chan[lastOp.c].earlyError
    /\ chan[lastOp.c].promise = "rejected"
    /\ Len(Notes("error")) = 1

\* C6: at most one channel is not torn down; connect() with a connection
\* reference held warns, tears the held channel down, emits "close" with
\* reason "reconnect" and leaves the new channel as the only live one.
C6_OneLiveChannel ==
    [][/\ Cardinality(LiveChannels') <= 1
       /\ (lastOp'.op = "connect" /\ sse # 0) =>
              /\ warnings' = Append(warnings, WarnReconnect)
              /\ chan'[sse].closed
              /\ emitted' = Append(emitted, CloseNote("reconnect"))
              /\ Len(chan') = Len(chan) + 1
              /\ LiveChannels' = {Len(chan')}
              /\ sse' = Len(chan')]_vars

\* C7: close() with no connection reference held does not raise, emits
\* nothing, changes no state and logs a warning; the second of two
\* consecutive close() calls emits nothing.
C7_CloseWhenNotOpen ==
    [][/\ (lastOp'.op = "close" /\ sse = 0) =>
              /\ ~lastOp'.threw
              /\ emitted' = emitted
              /\ chan' = chan /\ sse' = sse
              /\ warnings' = Append(warnings, WarnNotOpen)
       /\ (lastOp'.op = "close" /\ lastOp.op = "close") =>
              emitted' = emitted]_vars

\* C7's case: close() on an open connection followed by a second close().
C7_Witness ==
    /\ lastOp.op = "close" /\ lastOp.c = 0
    /\ Len(chan) = 1 /\ chan[1].opened /\ chan[1].closed
    /\ emitted = <<CloseNote(UserReason)>>
    /\ warnings = <<WarnNotOpen>>

\* C8: a cancel or auth_revoked event of the current channel tears that
\* channel down, clears the connection reference and emits exactly one
\* "close", whose reason is the name of the signal.
C8_RemoteClose ==
    [][(lastOp'.op = "onremoteclose" /\ sse # 0 /\ lastOp'.c = sse) =>
           /\ ~chan[sse].closed /\ chan'[sse].closed
           /\ sse' = 0
           /\ lastOp'.arg \in RemoteCloseReasons
           /\ emitted' = Append(emitted, CloseNote(lastOp'.arg))]_vars

\* C8's case: an open channel was closed by auth_revoked.
C8_Witness ==
    /\ lastOp.op = "onremoteclose" /\ lastOp.arg = "auth_revoked"
    /\ chan[lastOp.c].opened /\ chan[lastOp.c].closed
    /\ sse = 0
    /\ Last(emitted) = CloseNote("auth_revoked")

\* C9: a close event of the channel emits exactly one "close" with reason
\* "reset" and leaves the connection reference set; a close() that follows
\* tears down and emits "close" without the not-open warning, a connect()
\* that follows reports a reconnect.
C9_UnexpectedClose ==
    [][/\ lastOp'.op = "onclose" =>
              /\ emitted' = Append(emitted, CloseNote("reset"))
              /\ sse' = sse /\ sse' # 0
              /\ chan' = chan
       /\ (lastOp.op = "onclose" /\ lastOp'.op = "close") =>
              /\ warnings' = warnings
              /\ chan'[sse].closed /\ sse' = 0
              /\ emitted' = Append(emitted, CloseNote(UserReason))
       /\ (lastOp.op = "onclose" /\ lastOp'.op = "connect") =>
              /\ warnings' = Append(warnings, WarnReconnect)
              /\ emitted' = Append(emitted, CloseNote("reconnect"))]_vars

\* C9's case: close() right after a close event of an open channel.
C9_Witness ==
    /\ lastOp.op = "close"
    /\ Len(chan) = 1 /\ chan[1].opened /\ chan[1].closed
    /\ emitted = <<CloseNote("reset"), CloseNote(UserReason)>>
    /\ warnings = <<WarnUnexpected>>

(***************************************************************************)
(* Claims about on(), off() and emit(), checked under SpecHub.             *)
(***************************************************************************)
RECURSIVE Count(_, _)
Count(q, x) ==
    IF q = <<>> THEN 0
    ELSE (IF Head(q) = x THEN 1 ELSE 0) + Count(Tail(q), x)

Called == [i \in 1..Len(emission.calls) |-> emission.calls[i].cb]

\* The callbacks whose registrations for the emitted name the emission left
\* as they were when emit() was called: none added, none removed.
Stable(callback) ==
    /\ Count(emission.before, callback) > 0
    /\ Count(HandlersOf(handlers, emission.name), callback)
           = Count(emission.before, callback)

\* C10: an emit() in which no handler throws calls, with the payload, the
\* handlers registered for the name when emit() was called, once per
\* registration and in registration order, and no handler of another
\* name; also when a handler calls on() or off() for that name meanwhile.
\* Stated for the handlers that the emission neither added nor removed.
C10_EmitCallsRegistered ==
    (emission.ran /\ ~emission.threw) =>
        /\ \A i \in 1..Len(emission.calls) :
               /\ emission.calls[i].arg = emission.arg
               /\ emission.calls[i].cb \in
                      Range(emission.before)
                          \cup Range(HandlersOf(handlers, emission.name))
        /\ SelectSeq(Called, Stable) = SelectSeq(emission.before, Stable)

\* The emission ran handlers that only return or throw, a thrower among
\* them.
ThrowerAmongPlain ==
    /\ emission.ran
    /\ "thrower" \in Range(emission.before)
    /\ Range(emission.before) \subseteq {"a", "b", "thrower"}

\* C11: when a handler throws during emit(name, payload), the handlers
\* registered after it for that name are still called: the emission calls
\* every handler registered for the name.
C11_ThrowDoesNotStopEmit ==
    ThrowerAmongPlain => Called = emission.before

\* The step delivered a put or patch event to the client.
EventStep == ops' = ops + 1 /\ lastOp'.op \in EVENTS

\* The _emit() calls of the store in the step.
NewStoreEmits ==
    SubSeq(storeEmitted', Len(storeEmitted) + 1, Len(storeEmitted'))

\* The step called the store's put callback.
StorePutCalled ==
    \E i \in 1..Len(emission'.calls) : emission'.calls[i].cb = "storePut"

\* The key of the step's event, the path without its leading "/".
EventKey == Tail(Parsed(lastOp'.arg).path)

\* C12: a put event with the path "/" emits no "update"; a put event with
\* another path, its key holding a "!", emits exactly one "update" whose
\* record has the type before the first "!" and the id after it; a patch
\* event emits no "update".  Stated of the puts that reach the store's
\* callback.
C12_PutBecomesUpdate ==
    [][EventStep =>
        IF lastOp'.op = "patch" \/ Parsed(lastOp'.arg).path = <<"/">>
        THEN NewStoreEmits = <<>>
        ELSE (StorePutCalled /\ IndexOf(EventKey, "!", 1) # 0) =>
                 /\ Len(NewStoreEmits) = 1
                 /\ NewStoreEmits[1].name = "update"
                 /\ NewStoreEmits[1].arg.type =
                        SubSeq(EventKey, 1, IndexOf(EventKey, "!", 1) - 1)
                 /\ NewStoreEmits[1].arg.id =
                        SubSeq(EventKey, IndexOf(EventKey, "!", 1) + 1,
                               Len(EventKey))]_vars

\* C13: for a type without "!" and any id, _formatRecord(type + "!" + id,
\* value) returns, and the type and id of its record, joined by "!", are
\* the key again.
C13_FormatRoundTrip ==
    (formatted.called /\ "!" \notin Range(formatted.type)) =>
        /\ ~formatted.threw
        /\ formatted.record.type \o <<"!">> \o formatted.record.id
               = formatted.key

\* The emit() calls of the client in the step, after the event's own.
NewClientEmits == SubSeq(emitted', Len(emitted) + 2, Len(emitted'))

\* The step delivered a put whose key has no "!" to the store's callback.
MalformedPutStep ==
    /\ EventStep
    /\ lastOp'.op = "put"
    /\ StorePutCalled
    /\ Parsed(lastOp'.arg).path # <<"/">>
    /\ IndexOf(EventKey, "!", 1) = 0

\* C14: a put event whose key does not have the shape <type>!<id> is
\* reported as an "error" notification, of the store or of the client; the
\* "put" handlers registered after the store's are still called, and the
\* connection stays as it was for the events to come.
C14_MalformedKeyReported ==
    [][MalformedPutStep =>
        /\ \/ \E i \in 1..Len(NewStoreEmits) : NewStoreEmits[i].name = "error"
           \/ \E i \in 1..Len(NewClientEmits) :
                  NewClientEmits[i].name = "error"
        /\ Len(emission'.calls) = Len(emission'.before)
        /\ sse' = sse /\ chan' = chan]_vars

\* "chat!" and the identifier of time t with the given suffix.
ChatKey(t, suffix) == ChatPrefix \o TimeStampLoop(7, t, <<>>).chars \o suffix

\* C15: the bounds of a requestChat(startTime, endTime, limit) that
\* returned, with 0 <= startTime <= endTime, enclose "chat!" + x for every
\* identifier x of a time from startTime to endTime, whatever its suffix:
\* the least suffix and the greatest are tried.
C15_ChatWindowInclusive ==
    \A i \in 1..Len(queries) :
        ~queries[i].threw =>
            \A t \in WindowTimes, suffix \in {AllZeroChar, AllTilde} :
                (queries[i].startTime <= t /\ t <= queries[i].endTime) =>
                    /\ StrLeq(queries[i].startAt, ChatKey(t, suffix))
                    /\ StrLeq(ChatKey(t, suffix), queries[i].endAt)

\* C19: requestChat leaves the generator's state, lastTime and the twelve
\* suffix slots, as it found it.
C19_RequestChatKeepsGenerator ==
    \A i \in 1..Len(queries) : queries[i].after = queries[i].before

IsParticipant(record) == record.type = Participant
IsOther(record) == record.type # Participant

\* C16: the result of requestRoomData is the stable partition of the
\* records of the response: the participants in their order, then the
\* other records in theirs.
C16_RoomDataStablePartition ==
    (roomData.called /\ ~roomData.threw) =>
        roomData.result = SelectSeq(roomData.records, IsParticipant)
                              \o SelectSeq(roomData.records, IsOther)

\* The step ran a callback of a channel that connect() has replaced by the
\* channel the client holds now.
StaleStep ==
    /\ ops' = ops + 1
    /\ lastOp'.op \in {"onerror", "onopen", "onremoteclose", "onclose",
                       "put", "patch"}
    /\ lastOp'.c \in StaleChannels
    /\ sse # 0
    /\ lastOp'.c < sse

\* C17: a callback of a replaced channel leaves the connection reference
\* and the newer channel as they were and emits nothing.
C17_StaleChannelIgnored ==
    [][StaleStep =>
        /\ sse' = sse
        /\ chan'[sse] = chan[sse]
        /\ emitted' = emitted]_vars

\* C18: the promise of every connect() call settles.  Only a channel that
\* is not torn down reports open or error, the two callbacks that settle
\* the promise, so: no promise is pending on a channel that is torn down.
C18_ConnectSettles ==
    \A c \in Channels : chan[c].promise = "pending" => c \in LiveChannels

\* The "connect" notifications of the store so far.
ConnectNotes == SelectSeq(storeEmitted, LAMBDA e : e.name = "connect")

\* C20: the store's live flag is true only once the promise of its
\* connect() is resolved; the step in which the flag becomes true emits
\* "connect", once, and no other step emits it; a flag that is true stays
\* true in every step.
C20_LiveFlag ==
    [][/\ live' => chan'[storeConnect'].promise = "resolved"
       /\ IF ~live /\ live'
          THEN NewStoreEmits = <<[name |-> "connect", arg |-> NoRecord]>>
          ELSE \A i \in 1..Len(NewStoreEmits) :
                   NewStoreEmits[i].name # "connect"
       /\ Len(ConnectNotes') <= 1
       /\ live => live']_vars

\* The store went live, emitted "connect", and the connection was closed
\* afterwards.
C20_Witness ==
    /\ live
    /\ Len(ConnectNotes) = 1
    /\ lastOp.op \in {"close", "onremoteclose", "onclose", "onerror"}
    /\ chan[storeConnect].closed

=============================================================================
